---------------------------- MODULE Spec2Model ----------------------------
(***************************************************************************)
(* Model of the Teleinfo group decoder of pitinfo-parser (src/lib.rs):     *)
(* parse_group and its helper parse_period.                                *)
(*                                                                         *)
(* A &str is modelled as a sequence of one-character strings.  The decoder *)
(* is a pure function; the state machine is one call: the function that is *)
(* called, its argument, and the value it returns.                         *)
(***************************************************************************)
EXTENDS Integers, Sequences, FiniteSets, TLC

VARIABLES
    call,   \* the function under call: "parse_group" or "parse_period"
    arg,    \* its &str argument
    ret     \* NotReturned until the call has returned, then the returned value

vars == <<call, arg, ret>>

(***************************************************************************)
(* Bounds of the input space.                                              *)
(***************************************************************************)
\* longest run of digits drawn exhaustively for a numeric field
MaxDigits == 3
\* longest arbitrary text drawn exhaustively after a field code
MaxRestLen == 4

(***************************************************************************)
(* Result values.                                                          *)
(***************************************************************************)
NotReturned == [kind |-> "NotReturned"]
\* a panic!() or an unwrap() on None: the call does not return a Result
Panic == [kind |-> "Panic"]
OkNone == [kind |-> "Ok", some |-> FALSE]
OkSome(m) == [kind |-> "Ok", some |-> TRUE, msg |-> m]
OkPeriod(p) == [kind |-> "OkPeriod", period |-> p]
Err(e) == [kind |-> "Err", err |-> e]

\* Option<DayColor>
NoColor == [some |-> FALSE]
SomeColor(c) == [some |-> TRUE, color |-> c]

\* struct TarifPeriod
TarifPeriod(h, d) == [hour |-> h, day_color |-> d]

\* enum Message
ADCO == [variant |-> "ADCO"]
TariffOption(v) == [variant |-> "TariffOption", value |-> v]
Tomorrow(c) == [variant |-> "Tomorrow", day_color |-> c]
InstantaneousPower(p, v) == [variant |-> "InstantaneousPower", phase |-> p, value |-> v]
Index(p, v) == [variant |-> "Index", period |-> p, value |-> v]
ApparentPower(v) == [variant |-> "ApparentPower", value |-> v]
HHPHC(v) == [variant |-> "HHPHC", value |-> v]
CurrentTariffPeriod(p) == [variant |-> "CurrentTariffPeriod", period |-> p]

\* enum ParseError
GroupError(g) == [variant |-> "GroupError", group |-> g]
FieldError(c, d) == [variant |-> "FieldError", code |-> c, data |-> d]
ControlCharacterError == [variant |-> "ControlCharacterError"]
DayColorError(c) == [variant |-> "DayColorError", code |-> c]
OffPeakHoursError(c) == [variant |-> "OffPeakHoursError", code |-> c]

(***************************************************************************)
(* The pattern RE of parse_group.                                          *)
(***************************************************************************)
\* A literal of the pattern, as a sequence of one-character classes.
Lit(s) == [i \in 1..Len(s) |-> {s[i]}]

\* The alternation of group 1, in the order the pattern lists it
\* (IMAX[123] is listed twice).
CodeAlternatives ==
    << Lit(<<"A","D","C","O">>),
       Lit(<<"O","P","T","A","R","I","F">>),
       Lit(<<"I","S","O","U","S","C">>),
       Lit(<<"B","B","R","H">>) \o <<{"C","P"}>> \o Lit(<<"J">>) \o <<{"B","W","R"}>>,
       Lit(<<"I","M","A","X">>) \o <<{"1","2","3"}>>,
       Lit(<<"P","T","E","C">>),
       Lit(<<"D","E","M","A","I","N">>),
       Lit(<<"I","I","N","S","T">>) \o <<{"1","2","3"}>>,
       Lit(<<"I","M","A","X">>) \o <<{"1","2","3"}>>,
       Lit(<<"P","M","A","X">>),
       Lit(<<"P","A","P","P">>),
       Lit(<<"H","H","P","H","C">>),
       Lit(<<"M","O","T","D","E","T","A","T">>),
       Lit(<<"P","P","O","T">>) >>

\* The bracket class that follows group 1 and group 2, as the pattern
\* spells it: the characters between "[" and "]" are a space, U, +, 0, 0, 0, 9.
SepClass == {" ", "U", "+", "0", "9"}

\* "." matches any character but a line feed
Dot(c) == c # "\n"

\* pattern p matches s at the start (the "^" anchor): every class holds the
\* character at its place
MatchesAt(p, s) ==
    /\ Len(s) >= Len(p)
    /\ \A i \in 1..Len(p) : s[i] \in p[i]

\* RestMatches with (\S) for the control character: a separator is refused
C12_RestMatchesControlNotSeparator(s, n) ==
    { k \in 1..(Len(s) - n - 3) :
        /\ s[n + 1] \in SepClass
        /\ \A i \in (n + 2)..(n + 1 + k) : Dot(s[i])
        /\ s[n + 2 + k] \in SepClass
        /\ Dot(s[n + 3 + k]) /\ s[n + 3 + k] \notin SepClass
        /\ n + 3 + k = Len(s) }

\* RestMatches without the "$" anchor: text may follow the control character
C1_RestMatchesUnanchored(s, n) ==
    { k \in 1..(Len(s) - n - 3) :
        /\ s[n + 1] \in SepClass
        /\ \A i \in (n + 2)..(n + 1 + k) : Dot(s[i])
        /\ s[n + 2 + k] \in SepClass
        /\ Dot(s[n + 3 + k]) }

\* With group 1 ending at offset n, the rest "[sep](.+)[sep](.)$" : ".+" is
\* greedy, so the longest data is tried first; "$" is the end of the text.
\* Returns the set of data lengths for which the rest matches.
RestMatches(s, n) ==
    { k \in 1..(Len(s) - n - 3) :
        /\ s[n + 1] \in SepClass
        /\ \A i \in (n + 2)..(n + 1 + k) : Dot(s[i])
        /\ s[n + 2 + k] \in SepClass
        /\ Dot(s[n + 3 + k])
        /\ n + 3 + k = Len(s) }

Max(S) == CHOOSE x \in S : \A y \in S : y <= x

NoCaptures == [matched |-> FALSE]

\* RE.captures(group): leftmost-first over the alternatives, greedy ".+".
Captures(s) ==
    LET ok == { a \in 1..Len(CodeAlternatives) :
                  /\ MatchesAt(CodeAlternatives[a], s)
                  /\ RestMatches(s, Len(CodeAlternatives[a])) # {} }
    IN  IF ok = {} THEN NoCaptures
        ELSE LET a == CHOOSE x \in ok : \A y \in ok : x <= y
                 n == Len(CodeAlternatives[a])
                 k == Max(RestMatches(s, n))
             IN  [matched |-> TRUE,
                  code |-> SubSeq(s, 1, n),
                  data |-> SubSeq(s, n + 2, n + 1 + k),
                  control |-> SubSeq(s, n + 3 + k, n + 3 + k)]

(***************************************************************************)
(* str::parse::<u8 / u16 / u32>().  An unsigned value is kept as two       *)
(* 16-bit halves, value = hi * 65536 + lo, so that the 32-bit range is     *)
(* representable.                                                          *)
(***************************************************************************)
Digits == {"0", "1", "2", "3", "4", "5", "6", "7", "8", "9"}

\* char::to_digit(10) of a decimal digit
ToDigit(c) ==
    CASE c = "0" -> 0 [] c = "1" -> 1 [] c = "2" -> 2 [] c = "3" -> 3
      [] c = "4" -> 4 [] c = "5" -> 5 [] c = "6" -> 6 [] c = "7" -> 7
      [] c = "8" -> 8 [] c = "9" -> 9

\* v <= uN::MAX for N = bits
Fits(v, bits) ==
    CASE bits = 8 -> v.hi = 0 /\ v.lo <= 255
      [] bits = 16 -> v.hi = 0 /\ v.lo <= 65535
      [] bits = 32 -> v.hi <= 65535 /\ v.lo <= 65535

\* acc * 10 + d, not yet range-checked
MulAdd(acc, d) ==
    LET low == acc.lo * 10 + d
    IN  [hi |-> acc.hi * 10 + (low \div 65536), lo |-> low % 65536]

ParseFailed == [ok |-> FALSE]

\* v reduced to the width of the type
Wrapped(v, bits) ==
    CASE bits = 8 -> [hi |-> 0, lo |-> v.lo % 256]
      [] bits = 16 -> [hi |-> 0, lo |-> v.lo]
      [] bits = 32 -> [hi |-> v.hi % 65536, lo |-> v.lo]

\* Accumulate with wrapping_mul / wrapping_add in place of the checked ones
RECURSIVE C3_AccumulateWrapping(_, _, _, _)
C3_AccumulateWrapping(digits, i, acc, bits) ==
    IF i > Len(digits) THEN [ok |-> TRUE, value |-> acc]
    ELSE IF digits[i] \notin Digits THEN ParseFailed
    ELSE C3_AccumulateWrapping(digits, i + 1,
                               Wrapped(MulAdd(acc, ToDigit(digits[i])), bits), bits)

\* the digit loop: result = result.checked_mul(10)?.checked_add(digit)?
RECURSIVE Accumulate(_, _, _, _)
Accumulate(digits, i, acc, bits) ==
    IF i > Len(digits) THEN [ok |-> TRUE, value |-> acc]
    ELSE IF digits[i] \notin Digits THEN ParseFailed            \* InvalidDigit
    ELSE LET next == MulAdd(acc, ToDigit(digits[i]))
         IN  IF ~Fits(next, bits) THEN ParseFailed              \* PosOverflow
             ELSE Accumulate(digits, i + 1, next, bits)

\* from_str_radix(src, 10) of an unsigned type: an empty string and a lone
\* sign fail, one leading "+" is skipped, "-" is no sign of an unsigned type.
ParseUInt(src, bits) ==
    IF Len(src) = 0 THEN ParseFailed                            \* Empty
    ELSE IF Len(src) = 1 /\ src[1] \in {"+", "-"} THEN ParseFailed
    ELSE LET digits == IF src[1] = "+" THEN Tail(src) ELSE src
         IN  Accumulate(digits, 1, [hi |-> 0, lo |-> 0], bits)

\* the value as the message carries it: u8 and u16 as a number, u32 as its
\* two halves
AsU8(v) == v.lo
AsU16(v) == v.lo
AsU32(v) == <<v.hi, v.lo>>

(***************************************************************************)
(* parse_period                                                            *)
(***************************************************************************)
\* code.chars().nth(n): None past the end (n counts from 0)
Nth(s, n) == IF n + 1 <= Len(s) THEN <<s[n + 1]>> ELSE <<>>

\* parse_period with the day examined before the hour
C13_ParsePeriodDayFirst(code) ==
    IF Nth(code, 3) = <<>> THEN Panic
    ELSE LET day == Nth(code, 3)[1]
         IN  IF day \notin {"B", "W", "R"} THEN Err(DayColorError(code))
             ELSE IF Nth(code, 1) = <<>> THEN Panic
             ELSE LET hour == Nth(code, 1)[1]
                      d == CASE day = "B" -> "Blue" [] day = "W" -> "White"
                             [] day = "R" -> "Red"
                  IN  CASE hour = "C" -> OkPeriod(TarifPeriod("OffPeakHours", SomeColor(d)))
                        [] hour = "P" -> OkPeriod(TarifPeriod("PeakHours", SomeColor(d)))
                        [] OTHER -> Err(OffPeakHoursError(code))

\* parse_period with "_ => None" for the day in place of the error
C7_ParsePeriodUnknownDayIsNone(code) ==
    IF Nth(code, 1) = <<>> THEN Panic
    ELSE LET hour == Nth(code, 1)[1]
         IN  IF hour \notin {"C", "P"} THEN Err(OffPeakHoursError(code))
             ELSE IF Nth(code, 3) = <<>> THEN Panic
             ELSE LET day == Nth(code, 3)[1]
                      h == IF hour = "C" THEN "OffPeakHours" ELSE "PeakHours"
                  IN  CASE day = "B" -> OkPeriod(TarifPeriod(h, SomeColor("Blue")))
                        [] day = "W" -> OkPeriod(TarifPeriod(h, SomeColor("White")))
                        [] day = "R" -> OkPeriod(TarifPeriod(h, SomeColor("Red")))
                        [] OTHER -> OkPeriod(TarifPeriod(h, NoColor))

parse_period(code) ==
    IF Nth(code, 1) = <<>> THEN Panic
    ELSE LET hour == Nth(code, 1)[1]
         IN  IF hour \notin {"C", "P"} THEN Err(OffPeakHoursError(code))
             ELSE IF Nth(code, 3) = <<>> THEN Panic
             ELSE LET day == Nth(code, 3)[1]
                      h == IF hour = "C" THEN "OffPeakHours" ELSE "PeakHours"
                  IN  CASE day = "B" -> OkPeriod(TarifPeriod(h, SomeColor("Blue")))
                        [] day = "W" -> OkPeriod(TarifPeriod(h, SomeColor("White")))
                        [] day = "R" -> OkPeriod(TarifPeriod(h, SomeColor("Red")))
                        [] OTHER -> Err(DayColorError(code))

(***************************************************************************)
(* parse_group: the arms of "match code"                                   *)
(***************************************************************************)
\* IndexArm with the period taken from &code[4..]
C14_IndexArmSliceFrom4(code, data) ==
    LET v == ParseUInt(data, 32)
    IN  IF v.ok
        THEN LET p == parse_period(SubSeq(code, 5, Len(code)))
             IN  IF p.kind = "OkPeriod"
                 THEN OkSome(Index(p.period, AsU32(v.value)))
                 ELSE p
        ELSE Err(FieldError(code, data))

\* IndexArm with the period taken from &code[2..]
C10_IndexArmSliceFrom2(code, data) ==
    LET v == ParseUInt(data, 32)
    IN  IF v.ok
        THEN LET p == parse_period(SubSeq(code, 3, Len(code)))
             IN  IF p.kind = "OkPeriod"
                 THEN OkSome(Index(p.period, AsU32(v.value)))
                 ELSE p
        ELSE Err(FieldError(code, data))

\* "BBRHCJB" | ... | "BBRHPJR": the data is parsed first, then the period is
\* taken from &code[3..]; "?" returns parse_period's error as it is.
IndexArm(code, data) ==
    LET v == ParseUInt(data, 32)
    IN  IF v.ok
        THEN LET p == parse_period(SubSeq(code, 4, Len(code)))
             IN  IF p.kind = "OkPeriod"
                 THEN OkSome(Index(p.period, AsU32(v.value)))
                 ELSE p
        ELSE Err(FieldError(code, data))

\* PtecArm decoding the data with parse_period
C9_PtecArmViaParsePeriod(data) ==
    LET p == parse_period(data)
    IN  IF p.kind = "OkPeriod" THEN OkSome(CurrentTariffPeriod(p.period)) ELSE p

\* "PTEC"
PtecArm(data) ==
    CASE data = <<"H","C","J","B">> ->
            OkSome(CurrentTariffPeriod(TarifPeriod("OffPeakHours", SomeColor("Blue"))))
      [] data = <<"H","C","J","W">> ->
            OkSome(CurrentTariffPeriod(TarifPeriod("OffPeakHours", SomeColor("White"))))
      [] data = <<"H","C","J","R">> ->
            OkSome(CurrentTariffPeriod(TarifPeriod("OffPeakHours", SomeColor("Red"))))
      [] data = <<"H","P","J","B">> ->
            OkSome(CurrentTariffPeriod(TarifPeriod("PeakHours", SomeColor("Blue"))))
      [] data = <<"H","P","J","W">> ->
            OkSome(CurrentTariffPeriod(TarifPeriod("PeakHours", SomeColor("White"))))
      [] data = <<"H","P","J","R">> ->
            OkSome(CurrentTariffPeriod(TarifPeriod("PeakHours", SomeColor("Red"))))
      [] OTHER -> Err(FieldError(<<"P","T","E","C">>, data))

\* IinstArm with the phase counted from 0
C11_IinstArmPhaseFromZero(code, data) ==
    LET v == ParseUInt(data, 8)
    IN  IF v.ok
        THEN IF Nth(code, 5) = <<>> \/ Nth(code, 5)[1] \notin Digits
             THEN Panic
             ELSE OkSome(InstantaneousPower(ToDigit(Nth(code, 5)[1]) - 1, AsU8(v.value)))
        ELSE Err(FieldError(code, data))

\* "IINST1" | "IINST2" | "IINST3": the phase is the digit at offset 5 of
\* the code; both unwraps panic on None.
IinstArm(code, data) ==
    LET v == ParseUInt(data, 8)
    IN  IF v.ok
        THEN IF Nth(code, 5) = <<>> \/ Nth(code, 5)[1] \notin Digits
             THEN Panic
             ELSE OkSome(InstantaneousPower(ToDigit(Nth(code, 5)[1]), AsU8(v.value)))
        ELSE Err(FieldError(code, data))

\* StartsWithBBR as an exact match of "BBR"
C8_EqualsBBR(data) == data = <<"B","B","R">>

\* data.starts_with("BBR")
StartsWithBBR(data) == Len(data) >= 3 /\ SubSeq(data, 1, 3) = <<"B","B","R">>

\* "OPTARIF"
OptarifArm(data) ==
    CASE data = <<"B","A","S","E">> -> OkSome(TariffOption("Base"))
      [] data = <<"H","C",".",".">> -> OkSome(TariffOption("OffPeakHours"))
      [] data = <<"E","J","P",".">> -> OkSome(TariffOption("EJP"))
      [] OTHER -> IF StartsWithBBR(data)
                  THEN OkSome(TariffOption("Tempo"))
                  ELSE Err(FieldError(<<"O","P","T","A","R","I","F">>, data))

\* "DEMAIN"
DemainArm(data) ==
    CASE data = <<"-","-","-","-">> -> OkSome(Tomorrow(NoColor))
      [] data = <<"B","L","E","U">> -> OkSome(Tomorrow(SomeColor("Blue")))
      [] data = <<"B","L","A","N">> -> OkSome(Tomorrow(SomeColor("White")))
      [] data = <<"R","O","U","G">> -> OkSome(Tomorrow(SomeColor("Red")))
      [] OTHER -> Err(FieldError(<<"D","E","M","A","I","N">>, data))

\* "PAPP"
PappArm(data) ==
    LET v == ParseUInt(data, 16)
    IN  IF v.ok THEN OkSome(ApparentPower(AsU16(v.value)))
        ELSE Err(FieldError(<<"P","A","P","P">>, data))

\* "HHPHC"
HhphcArm(data) ==
    CASE data = <<"A">> -> OkSome(HHPHC("A"))
      [] data = <<"C">> -> OkSome(HHPHC("C"))
      [] data = <<"D">> -> OkSome(HHPHC("D"))
      [] data = <<"E">> -> OkSome(HHPHC("E"))
      [] data = <<"Y">> -> OkSome(HHPHC("Y"))
      [] OTHER -> Err(FieldError(<<"H","H","P","H","C">>, data))

\* the codes of the Index arm
IndexCodes ==
    { <<"B","B","R","H","C","J","B">>, <<"B","B","R","H","C","J","W">>,
      <<"B","B","R","H","C","J","R">>, <<"B","B","R","H","P","J","B">>,
      <<"B","B","R","H","P","J","W">>, <<"B","B","R","H","P","J","R">> }

\* IinstCodes with the arm's pattern cut short: "IINST3" is left to "_"
C6_IinstCodesWithoutPhase3 ==
    { <<"I","I","N","S","T","1">>, <<"I","I","N","S","T","2">> }

\* the codes of the InstantaneousPower arm
IinstCodes ==
    { <<"I","I","N","S","T","1">>, <<"I","I","N","S","T","2">>,
      <<"I","I","N","S","T","3">> }

\* IgnoredCodes without "ISOUSC"
C5_IgnoredCodesWithoutIsousc ==
    { <<"M","O","T","D","E","T","A","T">>, <<"I","M","A","X","1">>,
      <<"I","M","A","X","2">>, <<"I","M","A","X","3">>, <<"P","P","O","T">>,
      <<"P","M","A","X">> }

\* "The following codes are ignored"
IgnoredCodes ==
    { <<"M","O","T","D","E","T","A","T">>, <<"I","M","A","X","1">>,
      <<"I","M","A","X","2">>, <<"I","M","A","X","3">>, <<"P","P","O","T">>,
      <<"P","M","A","X">>, <<"I","S","O","U","S","C">> }

\* return match code { ... }
MatchCode(code, data) ==
    CASE code = <<"A","D","C","O">> -> OkSome(ADCO)
      [] code \in IndexCodes -> IndexArm(code, data)
      [] code = <<"P","T","E","C">> -> PtecArm(data)
      [] code \in IinstCodes -> IinstArm(code, data)
      [] code = <<"O","P","T","A","R","I","F">> -> OptarifArm(data)
      [] code = <<"D","E","M","A","I","N">> -> DemainArm(data)
      [] code = <<"P","A","P","P">> -> PappArm(data)
      [] code = <<"H","H","P","H","C">> -> HhphcArm(data)
      [] code \in IgnoredCodes -> OkNone
      [] OTHER -> Panic

parse_group(group) ==
    LET captures == Captures(group)
    IN  IF captures.matched
        THEN MatchCode(captures.code, captures.data)
        ELSE Err(GroupError(group))

(***************************************************************************)
(* The records and fragments the functions are called with.                *)
(***************************************************************************)
\* all texts over alphabet A of length lo..hi
Texts(A, lo, hi) == UNION { [1..k -> A] : k \in lo..hi }

\* the codes of the wire format
FieldCodes ==
    {
      <<"A","D","C","O">>, <<"O","P","T","A","R","I","F">>,
      <<"I","S","O","U","S","C">>, <<"B","B","R","H","C","J","B">>,
      <<"B","B","R","H","C","J","W">>, <<"B","B","R","H","C","J","R">>,
      <<"B","B","R","H","P","J","B">>, <<"B","B","R","H","P","J","W">>,
      <<"B","B","R","H","P","J","R">>, <<"I","M","A","X","1">>,
      <<"I","M","A","X","2">>, <<"I","M","A","X","3">>, <<"P","T","E","C">>,
      <<"D","E","M","A","I","N">>, <<"I","I","N","S","T","1">>,
      <<"I","I","N","S","T","2">>, <<"I","I","N","S","T","3">>,
      <<"P","M","A","X">>, <<"P","A","P","P">>, <<"H","H","P","H","C">>,
      <<"M","O","T","D","E","T","A","T">>, <<"P","P","O","T">> }

\* texts that are no field code: unknown, truncated, extended, empty
OtherCodes ==
    {
      <<"I","I","N","S","T","4">>, <<"X","X","X">>,
      <<"B","B","R","H","X","J","B">>, <<"B","B","R","H","C","J","T">>,
      <<"I","M","A","X","4">>, <<"A","D","C">>, <<"X","A","D","C","O">>,
      <<"I","I","N","S","T">>, <<"P","T","E","C","X">>, <<"B","B","R","H">>,
      <<>> }

\* data of the enumerated fields, right and wrong
EnumData ==
    {
      <<"B","A","S","E">>, <<"H","C",".",".">>, <<"E","J","P",".">>,
      <<"B","B","R","(">>, <<"B","B","R">>, <<"B","B","R","H","C","J","B">>,
      <<"B","A","S","E","X">>, <<"H","C",".">>, <<"X","B","B","R">>,
      <<"A","B","C","D">>, <<"-","-","-","-">>, <<"B","L","E","U">>,
      <<"B","L","A","N">>, <<"R","O","U","G">>, <<"Z","Z","Z","Z">>,
      <<"B","L","E","U","S">>, <<"-","-","-">>, <<"A">>, <<"C">>, <<"D">>,
      <<"E">>, <<"Y">>, <<"B">>, <<"A","C">>, <<"a">>, <<"H","C","J","B">>,
      <<"H","C","J","W">>, <<"H","C","J","R">>, <<"H","P","J","B">>,
      <<"H","P","J","W">>, <<"H","P","J","R">>, <<"H","A","J","B">>,
      <<"H","C","J","T">>, <<"X","X","X","X">>, <<"H","C","J","B","X">>,
      <<"a"," ","b">>, <<"A"," ","Y">>, <<"1","2"," ","5">> }

\* numeric data at and around the limits of u8, u16 and u32
LimitData ==
    {
      <<"2","5","5">>, <<"2","5","6">>, <<"0","2","5","5">>,
      <<"0","0","2","5","6">>, <<"6","5","5","3","5">>,
      <<"6","5","5","3","6">>, <<"0","6","5","5","3","5">>,
      <<"4","2","9","4","9","6","7","2","9","5">>,
      <<"4","2","9","4","9","6","7","2","9","6">>,
      <<"4","2","9","4","9","6","7","2","9","4">>,
      <<"0","4","2","9","4","9","6","7","2","9","5">>,
      <<"4","2","9","4","9","6","7","2","9","5","0">>,
      <<"4","2","9","4","9","6","7","3","0","0">>,
      <<"4","2","9","5","0","3","2","8","3","2">>,
      <<"9","9","9","9","9","9","9","9","9","9">>,
      <<"9","9","9","9","9","9","9","9","9","9","9">>,
      <<"0","2","3","9","1","6","8","3","0">>,
      <<"0","0","7","6","5","9","7","0","9">>, <<"0","0","8","0","3">>,
      <<"+","2","5","5">>, <<"+","2","5","6">>, <<"+","6","5","5","3","5">>,
      <<"+","6","5","5","3","6">>,
      <<"+","4","2","9","4","9","6","7","2","9","5">>,
      <<"+","4","2","9","4","9","6","7","2","9","6">>, <<"+">>, <<"-">>,
      <<"+","+","5">>, <<"+","-","5">>, <<"5","+">>, <<"1","a">>,
      <<"a","1">>, <<"1","2",".","5">>, <<"5"," ">>, <<"-","0">>,
      <<"0","0","0","0","0","0","0","0","0","0","0","0","0","8">> }

\* digit strings of 1..MaxDigits digits, bare, with "+" and with "-"
DigitData ==
    { sign \o ds : sign \in {<<>>, <<"+">>, <<"-">>},
                   ds \in Texts({"0", "2", "5", "6"}, 1, MaxDigits) }

NumericCodes == IndexCodes \cup IinstCodes \cup {<<"P","A","P","P">>}

\* what may stand where a separator is expected
Delims == {<<>>, <<" ">>, <<"U">>, <<"X">>, <<" "," ">>}

\* what may stand where the control character is expected
Tails == {<<>>, <<"X">>, <<" ">>, <<"X","Y">>}

CoreData ==
    {
      <<"5">>, <<"a">>, <<"a"," ","b">>, <<"B","A","S","E">>,
      <<"H","C","J","B">>, <<"A">>, <<"-","-","-","-">>, <<"0","0","8">> }

Records ==
    \* well-delimited records: every code with every enumerated data, the
    \* numeric codes (and two others) with every numeric data
    { c \o <<" ">> \o d \o <<" ">> \o t :
        c \in FieldCodes, d \in EnumData, t \in {<<"X">>, <<" ">>} }
    \cup
    { c \o <<" ">> \o d \o <<" ">> \o t :
        c \in NumericCodes \cup {<<"A","D","C","O">>, <<"P","P","O","T">>},
        d \in LimitData \cup DigitData, t \in {<<"X">>, <<" ">>} }
    \cup
    \* records with missing, doubled or foreign delimiters and tails
    { c \o s1 \o d \o s2 \o t :
        c \in FieldCodes \cup OtherCodes, s1 \in Delims, d \in CoreData,
        s2 \in Delims, t \in Tails }
    \cup
    \* any text after a code, the empty record included
    { c \o r : c \in FieldCodes \cup OtherCodes,
               r \in Texts({" ", "5", "X"}, 0, MaxRestLen) }

\* the length of the fragment &code[3..] of a 7-character code
FragmentLen == 4

Fragments == Texts({"H", "C", "P", "J", "B", "W", "R", "A", "T"}, FragmentLen, FragmentLen)

(***************************************************************************)
(* The state machine: one call of parse_group or of parse_period.          *)
(***************************************************************************)
Init ==
    /\ ret = NotReturned
    /\ \/ call = "parse_group" /\ arg \in Records
       \/ call = "parse_period" /\ arg \in Fragments

ParseGroup ==
    /\ call = "parse_group"
    /\ ret = NotReturned
    /\ ret' = parse_group(arg)
    /\ UNCHANGED <<call, arg>>

ParsePeriod ==
    /\ call = "parse_period"
    /\ ret = NotReturned
    /\ ret' = parse_period(arg)
    /\ UNCHANGED <<call, arg>>

Next == ParseGroup \/ ParsePeriod

Spec == Init /\ [][Next]_vars

\* parse_group has returned
GroupDone == call = "parse_group" /\ ret # NotReturned
\* parse_period has returned
PeriodDone == call = "parse_period" /\ ret # NotReturned

(***************************************************************************)
(* The vocabulary of the properties: the record grammar CODE SEP DATA SEP  *)
(* CTRL and the decimal value of a text, stated without the pattern        *)
(* matcher and without the digit loop.                                     *)
(***************************************************************************)
\* record r is code c, a separator, at least one character of data, a
\* separator, one control character
HasShape(r, c) ==
    /\ Len(r) >= Len(c) + 4
    /\ SubSeq(r, 1, Len(c)) = c
    /\ r[Len(c) + 1] \in SepClass
    /\ r[Len(r) - 1] \in SepClass

Shaped(r) == \E c \in FieldCodes : HasShape(r, c)

\* the code and the data of a shaped record (no field code is a prefix of
\* another, so the code is unique)
CodeOf(r) == CHOOSE c \in FieldCodes : HasShape(r, c)
DataOf(r) == SubSeq(r, Len(CodeOf(r)) + 2, Len(r) - 2)

AllDigits(d) == Len(d) >= 1 /\ \A i \in 1..Len(d) : d[i] \in Digits

\* d without its leading zeros
RECURSIVE StripZeros(_)
StripZeros(d) == IF Len(d) >= 1 /\ d[1] = "0" THEN StripZeros(Tail(d)) ELSE d

\* a < b for digit texts of the same length
RECURSIVE TextLess(_, _)
TextLess(a, b) ==
    IF Len(a) = 0 THEN FALSE
    ELSE IF a[1] # b[1] THEN ToDigit(a[1]) < ToDigit(b[1])
    ELSE TextLess(Tail(a), Tail(b))

\* the number written by digit text d exceeds the one written by m
\* (m without leading zeros)
Exceeds(d, m) ==
    LET n == StripZeros(d)
    IN  Len(n) > Len(m) \/ (Len(n) = Len(m) /\ TextLess(m, n))

\* the greatest value of the field's type, as a text
MaxText(code) ==
    IF code \in IinstCodes THEN <<"2","5","5">>
    ELSE IF code = <<"P","A","P","P">> THEN <<"6","5","5","3","5">>
    ELSE <<"4","2","9","4","9","6","7","2","9","5">>

\* 10 to the power e, e in 0..4
Pow10(e) == CASE e = 0 -> 1 [] e = 1 -> 10 [] e = 2 -> 100 [] e = 3 -> 1000 [] e = 4 -> 10000

\* the number written by a digit text of at most 5 digits, by place values
RECURSIVE PlaceSum(_)
PlaceSum(n) ==
    IF Len(n) = 0 THEN 0
    ELSE ToDigit(n[1]) * Pow10(Len(n) - 1) + PlaceSum(Tail(n))

\* the number written by digit text d of at most 10 significant digits, as
\* H * 100000 + L
HighPart(d) ==
    LET n == StripZeros(d)
    IN  IF Len(n) > 5 THEN PlaceSum(SubSeq(n, 1, Len(n) - 5)) ELSE 0
LowPart(d) ==
    LET n == StripZeros(d)
    IN  IF Len(n) > 5 THEN PlaceSum(SubSeq(n, Len(n) - 4, Len(n))) ELSE PlaceSum(n)

\* the same number as the message of the code carries it: a number for
\* IINSTn and PAPP, the two 16-bit halves for an index
\* (H * 100000 + L = H * 65536 + (H * 34464 + L))
DecimalValue(code, d) ==
    LET r == HighPart(d) * 34464 + LowPart(d)
    IN  IF code \in IndexCodes
        THEN <<HighPart(d) + (r \div 65536), r % 65536>>
        ELSE HighPart(d) * 100000 + LowPart(d)

\* the digits of numeric data: the data without one leading "+"
Magnitude(d) == IF Len(d) >= 2 /\ d[1] = "+" THEN Tail(d) ELSE d

IsOkSome(r) == r.kind = "Ok" /\ r.some
IsNumericMessage(r) ==
    IsOkSome(r) /\ r.msg.variant \in {"InstantaneousPower", "ApparentPower", "Index"}

C2_UnsignedDigitsOnly ==
    GroupDone /\ Shaped(arg) /\ CodeOf(arg) \in NumericCodes =>
        LET code == CodeOf(arg)
            data == DataOf(arg)
        IN  /\ data[1] \in {"+", "-"} =>
                /\ ret = Err(FieldError(code, data))
                /\ ~IsNumericMessage(ret)
            /\ AllDigits(data) /\ ~Exceeds(data, MaxText(code)) =>
                /\ IsNumericMessage(ret)
                /\ ret.msg.value = DecimalValue(code, data)

(***************************************************************************)
(* C3: a numeric value beyond the width of the field is refused, never     *)
(* truncated or wrapped: digit-only data above 255 (IINSTn), 65535 (PAPP)  *)
(* or 4294967295 (an index) gives Err(FieldError(code, data)), and the value  *)
(* of every numeric message is the exact decimal value of its data.        *)
(***************************************************************************)
C3_OverflowRejected ==
    GroupDone /\ Shaped(arg) /\ CodeOf(arg) \in NumericCodes =>
        LET code == CodeOf(arg)
            data == DataOf(arg)
        IN  /\ AllDigits(data) /\ Exceeds(data, MaxText(code)) =>
                ret = Err(FieldError(code, data))
            /\ IsNumericMessage(ret) =>
                /\ AllDigits(Magnitude(data))
                /\ ~Exceeds(Magnitude(data), MaxText(code))
                /\ ret.msg.value = DecimalValue(code, Magnitude(data))

\* "PAPP 65536 X" has been refused with a FieldError
C3_Witness ==
    /\ GroupDone
    /\ arg = <<"P","A","P","P"," ","6","5","5","3","6"," ","X">>
    /\ ret = Err(FieldError(<<"P","A","P","P">>, <<"6","5","5","3","6">>))

(***************************************************************************)
(* C4: the DATA of an accepted record holds no separator: a record with a  *)
(* whitelisted code whose data part itself holds a separator (more than    *)
(* two separators in all, as in "ADCO a b X") gives GroupError, and the    *)
(* data of a FieldError never holds a separator.  Stated for the space,    *)
(* the separator of the example.                                           *)
(***************************************************************************)
C4_NoSeparatorInData ==
    GroupDone =>
        /\ Shaped(arg) /\ (\E i \in 1..Len(DataOf(arg)) : DataOf(arg)[i] = " ") =>
               ret = Err(GroupError(arg))
        /\ ret.kind = "Err" /\ ret.err.variant = "FieldError" =>
               \A i \in 1..Len(ret.err.data) : ret.err.data[i] # " "

(***************************************************************************)
(* C5: a record of the grammar whose code is MOTDETAT, IMAX1, IMAX2,       *)
(* IMAX3, PPOT, PMAX or ISOUSC gives Ok(None), whatever its data and its   *)
(* control character: no error and no message.                             *)
(***************************************************************************)
C5_IgnoredGiveOkNone ==
    GroupDone /\ Shaped(arg)
      /\ CodeOf(arg) \in { <<"M","O","T","D","E","T","A","T">>, <<"I","M","A","X","1">>,
                           <<"I","M","A","X","2">>, <<"I","M","A","X","3">>,
                           <<"P","P","O","T">>, <<"P","M","A","X">>,
                           <<"I","S","O","U","S","C">> }
    => ret = OkNone

\* "ISOUSC a b X" has been ignored
C5_Witness ==
    /\ GroupDone
    /\ arg = <<"I","S","O","U","S","C"," ","a"," ","b"," ","X">>
    /\ Shaped(arg)
    /\ ret = OkNone

(***************************************************************************)
(* C6: parse_group never panics: whatever the record, the call returns a   *)
(* Result; every code the pattern captures has an arm, and the unwraps on  *)
(* the phase digit and on the characters of the period succeed.            *)
(***************************************************************************)
C6_NeverPanics ==
    GroupDone => ret.kind \in {"Ok", "Err"}

\* "IINST3 5 X" has been decoded: the phase digit was there to unwrap
C6_Witness ==
    /\ GroupDone
    /\ arg = <<"I","I","N","S","T","3"," ","5"," ","X">>
    /\ ret = OkSome(InstantaneousPower(3, 5))

(***************************************************************************)
(* C7: every TarifPeriod the decoder produces has a day colour: in an      *)
(* Index, in a CurrentTariffPeriod and in the Ok of parse_period,          *)
(* day_color is Some.                                                      *)
(***************************************************************************)
C7_DayColorIsSome ==
    /\ GroupDone /\ IsOkSome(ret) /\ ret.msg.variant \in {"Index", "CurrentTariffPeriod"}
         => ret.msg.period.day_color.some
    /\ PeriodDone /\ ret.kind = "OkPeriod" => ret.period.day_color.some

\* parse_period("HPJW") has returned a period with its colour
C7_Witness ==
    /\ PeriodDone
    /\ arg = <<"H","P","J","W">>
    /\ ret = OkPeriod(TarifPeriod("PeakHours", SomeColor("White")))

(***************************************************************************)
(* C8: OPTARIF: exactly "BASE" is Base, exactly "HC.." is OffPeakHours,    *)
(* exactly "EJP." is EJP; any other data beginning with "BBR" is Tempo;    *)
(* all other data ("BASEX" too) is Err(FieldError("OPTARIF", data)).       *)
(***************************************************************************)
C8_Optarif ==
    GroupDone /\ Shaped(arg) /\ CodeOf(arg) = <<"O","P","T","A","R","I","F">> =>
        LET d == DataOf(arg)
        IN  ret = IF d = <<"B","A","S","E">> THEN OkSome(TariffOption("Base"))
                  ELSE IF d = <<"H","C",".",".">> THEN OkSome(TariffOption("OffPeakHours"))
                  ELSE IF d = <<"E","J","P",".">> THEN OkSome(TariffOption("EJP"))
                  ELSE IF Len(d) >= 3 /\ d[1] = "B" /\ d[2] = "B" /\ d[3] = "R"
                       THEN OkSome(TariffOption("Tempo"))
                  ELSE Err(FieldError(<<"O","P","T","A","R","I","F">>, d))

\* "OPTARIF BBR( X" has been decoded as Tempo
C8_Witness ==
    /\ GroupDone
    /\ arg = <<"O","P","T","A","R","I","F"," ","B","B","R","("," ","X">>
    /\ ret = OkSome(TariffOption("Tempo"))

(***************************************************************************)
(* C9: the enumerated fields match the whole data: DEMAIN maps ----, BLEU, *)
(* BLAN, ROUG to Tomorrow(None / Blue / White / Red); HHPHC maps A, C, D,  *)
(* E, Y to the value of that name; PTEC maps H{C,P}J{B,W,R} to the current *)
(* period (C off-peak, P peak; B, W, R blue, white, red); any other data   *)
(* is Err(FieldError(code, data)), for PTEC too.                           *)
(***************************************************************************)
HourOf(c) == IF c = "C" THEN "OffPeakHours" ELSE "PeakHours"
ColorOf(c) == CASE c = "B" -> "Blue" [] c = "W" -> "White" [] c = "R" -> "Red"

C9_EnumeratedFields ==
    GroupDone /\ Shaped(arg) =>
        LET code == CodeOf(arg)
            d == DataOf(arg)
        IN  /\ code = <<"D","E","M","A","I","N">> =>
                ret = IF d = <<"-","-","-","-">> THEN OkSome(Tomorrow(NoColor))
                      ELSE IF d = <<"B","L","E","U">> THEN OkSome(Tomorrow(SomeColor("Blue")))
                      ELSE IF d = <<"B","L","A","N">> THEN OkSome(Tomorrow(SomeColor("White")))
                      ELSE IF d = <<"R","O","U","G">> THEN OkSome(Tomorrow(SomeColor("Red")))
                      ELSE Err(FieldError(code, d))
            /\ code = <<"H","H","P","H","C">> =>
                ret = IF Len(d) = 1 /\ d[1] \in {"A", "C", "D", "E", "Y"}
                      THEN OkSome(HHPHC(d[1]))
                      ELSE Err(FieldError(code, d))
            /\ code = <<"P","T","E","C">> =>
                ret = IF /\ Len(d) = 4
                         /\ d[1] = "H" /\ d[2] \in {"C", "P"}
                         /\ d[3] = "J" /\ d[4] \in {"B", "W", "R"}
                      THEN OkSome(CurrentTariffPeriod(
                               TarifPeriod(HourOf(d[2]), SomeColor(ColorOf(d[4])))))
                      ELSE Err(FieldError(code, d))

\* "PTEC HAJB X" has been refused with a FieldError, not an OffPeakHoursError
C9_Witness ==
    /\ GroupDone
    /\ arg = <<"P","T","E","C"," ","H","A","J","B"," ","X">>
    /\ ret = Err(FieldError(<<"P","T","E","C">>, <<"H","A","J","B">>))

(***************************************************************************)
(* C10: for the six codes BBRH{C,P}J{B,W,R}, data that is a decimal number *)
(* of 0..4294967295 gives Index{period, value}: the value is the decimal   *)
(* value of the data, the period comes from the last 4 characters of the   *)
(* code (C off-peak, P peak; B, W, R blue, white, red); data that is no    *)
(* number gives Err(FieldError(code, data)) with the whole 7-character     *)
(* code.                                                                   *)
(***************************************************************************)
C10_Index ==
    GroupDone /\ Shaped(arg)
      /\ Len(CodeOf(arg)) = 7 /\ SubSeq(CodeOf(arg), 1, 4) = <<"B","B","R","H">> =>
        LET code == CodeOf(arg)
            d == DataOf(arg)
        IN  /\ AllDigits(d) /\ ~Exceeds(d, <<"4","2","9","4","9","6","7","2","9","5">>) =>
                ret = OkSome(Index(TarifPeriod(HourOf(code[5]), SomeColor(ColorOf(code[7]))),
                                   DecimalValue(code, d)))
            /\ ~AllDigits(Magnitude(d)) =>
                /\ ret = Err(FieldError(code, d))
                /\ Len(ret.err.code) = 7

\* "BBRHPJR 007659709 X" has been decoded: 7659709 = 116 * 65536 + 57533
C10_Witness ==
    /\ GroupDone
    /\ arg = <<"B","B","R","H","P","J","R"," ","0","0","7","6","5","9","7","0","9"," ","X">>
    /\ ret = OkSome(Index(TarifPeriod("PeakHours", SomeColor("Red")), <<116, 57533>>))

(***************************************************************************)
(* C11: for n in 1..3 and data a decimal number of 0..255, IINSTn gives    *)
(* InstantaneousPower{phase, value}: the phase is the digit that ends the  *)
(* code, the value the decimal value of the data; data that is no number   *)
(* gives Err(FieldError("IINSTn", data)) with that same code; the phase is *)
(* always in 1..3.                                                         *)
(***************************************************************************)
C11_InstantaneousPower ==
    /\ GroupDone /\ Shaped(arg)
         /\ Len(CodeOf(arg)) = 6 /\ SubSeq(CodeOf(arg), 1, 5) = <<"I","I","N","S","T">> =>
           LET code == CodeOf(arg)
               d == DataOf(arg)
           IN  /\ AllDigits(d) /\ ~Exceeds(d, <<"2","5","5">>) =>
                   ret = OkSome(InstantaneousPower(
                             CASE code[6] = "1" -> 1 [] code[6] = "2" -> 2 [] code[6] = "3" -> 3,
                             PlaceSum(StripZeros(d))))
               /\ ~AllDigits(Magnitude(d)) => ret = Err(FieldError(code, d))
    /\ GroupDone /\ IsOkSome(ret) /\ ret.msg.variant = "InstantaneousPower" =>
           ret.msg.phase \in 1..3

\* "IINST2 025 X" has been decoded: phase 2, value 25
C11_Witness ==
    /\ GroupDone
    /\ arg = <<"I","I","N","S","T","2"," ","0","2","5"," ","X">>
    /\ ret = OkSome(InstantaneousPower(2, 25))

(***************************************************************************)
(* C12: the control character is captured and never looked at: two records *)
(* of the grammar that differ in their last character only are decoded to  *)
(* the same value, and ControlCharacterError is never returned.            *)
(***************************************************************************)
\* record r with its last character replaced by c
WithControl(r, c) == SubSeq(r, 1, Len(r) - 1) \o <<c>>

C12_ControlIgnored ==
    GroupDone =>
        /\ Shaped(arg) =>
             \A c \in {"X", " ", "5", "=", "U", "a"} :
                 parse_group(WithControl(arg, c)) = ret
        /\ ret.kind = "Err" => ret.err # ControlCharacterError

\* "DEMAIN BLEU X" has been decoded, and "DEMAIN BLEU  " is decoded alike
C12_Witness ==
    /\ GroupDone
    /\ arg = <<"D","E","M","A","I","N"," ","B","L","E","U"," ","X">>
    /\ ret = OkSome(Tomorrow(SomeColor("Blue")))
    /\ parse_group(<<"D","E","M","A","I","N"," ","B","L","E","U"," "," ">>) = ret

(***************************************************************************)
(* C13: parse_period of a 4-character fragment f: when the character at    *)
(* offset 1 is neither C nor P, Err(OffPeakHoursError(f)), whatever stands *)
(* at offset 3; else when the character at offset 3 is not B, W or R,      *)
(* Err(DayColorError(f)); else Ok(TarifPeriod) with the hour of C / P and  *)
(* Some colour of B / W / R.  The error carries f itself; the characters   *)
(* at offsets 0 and 2 are not examined.                                    *)
(***************************************************************************)
\* the result without the fragment an error carries
Outcome(r) == IF r.kind = "Err" THEN [kind |-> "Err", variant |-> r.err.variant] ELSE r

C13_PeriodRule ==
    PeriodDone /\ Len(arg) = 4 =>
        /\ ret = IF arg[2] \notin {"C", "P"} THEN Err(OffPeakHoursError(arg))
                 ELSE IF arg[4] \notin {"B", "W", "R"} THEN Err(DayColorError(arg))
                 ELSE OkPeriod(TarifPeriod(HourOf(arg[2]), SomeColor(ColorOf(arg[4]))))
        /\ \A c \in {"H", "J", "C", "B", "Z"} :
             /\ Outcome(parse_period(<<c, arg[2], arg[3], arg[4]>>)) = Outcome(ret)
             /\ Outcome(parse_period(<<arg[1], arg[2], c, arg[4]>>)) = Outcome(ret)

\* parse_period("HAJT"), wrong at both offsets, has reported the hour
C13_Witness ==
    /\ PeriodDone
    /\ arg = <<"H","A","J","T">>
    /\ ret = Err(OffPeakHoursError(<<"H","A","J","T">>))

=============================================================================
